---- MODULE Spec2Model ----
(***************************************************************************)
(* Cash-flow projection and valuation engine of src/real_estate_app.py:    *)
(* the mortgage and first-year summary (lines 945-998), the multi-year     *)
(* forecast (1480-1534), the terminal sale (1536-1550), the IRR and total  *)
(* ROI (1552-1560), the scenario comparison (1634-1702) and the            *)
(* appreciation x interest-rate heatmap (1720-1789).                       *)
(* The retirement calculator of src/retirement_app.py (withdrawal that     *)
(* empties the account, yearly balances of one simulated path) is a        *)
(* second script with its own variables.                                   *)
(*                                                                         *)
(* The script runs top to bottom on the values of the sidebar widgets.     *)
(* The state is the script's module-level variables; an action is one      *)
(* straight-line section of the script or one iteration of one of its      *)
(* loops.                                                                  *)
(*                                                                         *)
(* Numbers.  Python computes in IEEE doubles, rounding after every         *)
(* operation.  Here a money amount is a whole number of dollars and a      *)
(* dimensionless quantity (a rate, a ratio, a growth factor) is a whole    *)
(* number of 1/Scale units; every product and quotient is rounded toward   *)
(* zero to that grid.  Decimal literals of the source (0.8, 27.5, 0.06,    *)
(* 12) are applied as exact ratios.                                        *)
(***************************************************************************)
EXTENDS Integers, Sequences, FiniteSets, TLC

(***************************************************************************)
(* Fixed-point arithmetic                                                  *)
(***************************************************************************)
Scale == 10^6
Half == 10^3

Abs(x) == IF x < 0 THEN -x ELSE x

Max(a, b) == IF a >= b THEN a ELSE b

\* a * b / Scale for a, b >= 0, without leaving 32 bits
MulU(a, b) ==
    LET a1 == a \div Half
        a0 == a % Half
        b1 == b \div Half
        b0 == b % Half
    IN  a1 * b1 + (a1 * b0 + a0 * b1 + (a0 * b0) \div Half) \div Half

\* x * f where f is in 1/Scale units (the result has the unit of x)
Mul(a, b) ==
    IF (a < 0) = (b < 0) THEN MulU(Abs(a), Abs(b)) ELSE -MulU(Abs(a), Abs(b))

RECURSIVE DivDigits(_, _, _, _)
DivDigits(q, rem, b, unit) ==
    IF unit = 1 THEN q
    ELSE DivDigits(q * 10 + (rem * 10) \div b, (rem * 10) % b, b, unit \div 10)

\* a * Scale / b for a >= 0, b > 0, by long division
DivU(a, b) == DivDigits(a \div b, a % b, b, Scale)

\* x / f where f is in 1/Scale units, or the ratio of two amounts in 1/Scale units
Div(a, b) ==
    IF (a < 0) = (b < 0) THEN DivU(Abs(a), Abs(b)) ELSE -DivU(Abs(a), Abs(b))

\* x * num / den for a decimal literal num/den of the source
Lit(x, num, den) ==
    IF x < 0 THEN -((-x * num) \div den) ELSE (x * num) \div den

\* p percent in 1/Scale units
Pct(p) == (p * Scale) \div 100

\* x ** k for an integer k >= 0
RECURSIVE Pow(_, _)
Pow(x, k) ==
    IF k = 0 THEN Scale
    ELSE IF k % 2 = 1 THEN Mul(x, Pow(x, k - 1))
    ELSE LET h == Pow(x, k \div 2) IN Mul(h, h)

\* x ** (-k)
PowNeg(x, k) == Div(Scale, Pow(x, k))

RECURSIVE SumSeq(_)
SumSeq(s) == IF s = <<>> THEN 0 ELSE s[1] + SumSeq(Tail(s))

\* A float that may be not-a-number (the results of irr)
FNum(x) == [nan |-> FALSE, val |-> x]
FNaN == [nan |-> TRUE, val |-> 0]

(***************************************************************************)
(* Bounds of the model and constants of the program                        *)
(***************************************************************************)
MaxYears == 5
MinLoanTerm == 5
MaxLoanTerm == 30
MonthsPerYear == 12
RentGrowthPct == 2
SellingCostPct == 6

PropertyTypes == {"Residential", "Commercial - Office"}
Scenarios == <<"Baseline", "Bullish", "Bearish">>
ScenarioSet == {"Baseline", "Bullish", "Bearish"}
HeatmapPoints == 8

\* the calls of irr that raise: MainCall is the call of line 1554, a pair
\* <<i, j>> the call of line 1786 for heatmap cell (i, j)
MainCall == <<0, 0>>
IrrFaults == {{}, {MainCall}, {<<2, 3>>}, {MainCall, <<8, 8>>}}

VARIABLES
    \* sidebar inputs
    property_type, price, down_pct, rate, years, loan_term, expenses,
    vacancy, appr, tax, scenario, base_rent,
    \* where the vacancy rate comes from (675, 752) and the rate FRED gave
    \* (675, 729-748)
    use_fred_vacancy_rate, current_vacancy_rate,
    \* the calls of irr that raise in this run
    irr_raises,
    \* position in the script
    pc,
    \* summary (945-998)
    rent, loan, r, n, monthly_mortgage, annual_rent, noi, annual_mortgage,
    cash_flow, annual_depreciation, cash_flow_with_tax_benefits,
    \* forecast (1480-1534); year is the value the running for loop gives
    \* its variable next
    cash_flows, annual_cash_flows, annual_appreciation, cumulative_returns,
    cumulative_value, year,
    \* terminal sale, IRR, ROI (1536-1560)
    final_property_value, selling_costs, loan_balance, net_proceeds,
    project_irr, roi,
    \* scenario comparison (1634-1702)
    scenario_comparison, cumulative_value_current, cumulative_investment,
    alt_idx, cumulative_value_alt,
    \* heatmap (1720-1789); heatmap_assigned records the cells the loop wrote
    heatmap_data, hm_i, hm_j, hm_cash_flows, heatmap_assigned,
    \* src/retirement_app.py: inputs of part 1 (81-97), its result (100),
    \* arguments and locals of calculate_yearly_balances (37-70; sim_year is
    \* the loop variable year of line 50), position in the script
    current_balance, years_before_retirement, annual_deposit, rate_of_return,
    withdrawal_years, max_withdrawal, withdrawal_amount, returns,
    borrowing_rate, balance, yearly_results, sim_year, rpc

inputs == <<property_type, price, down_pct, rate, years, loan_term, expenses,
            vacancy, appr, tax, scenario, base_rent, use_fred_vacancy_rate,
            current_vacancy_rate, irr_raises>>
summary == <<rent, loan, r, n, monthly_mortgage, annual_rent, noi,
             annual_mortgage, cash_flow, annual_depreciation,
             cash_flow_with_tax_benefits>>
forecast == <<cash_flows, annual_cash_flows, annual_appreciation,
              cumulative_returns, cumulative_value>>
sale == <<final_property_value, selling_costs, loan_balance, net_proceeds>>
scenarios == <<scenario_comparison, cumulative_value_current,
               cumulative_investment, alt_idx, cumulative_value_alt>>
heatmap == <<heatmap_data, hm_i, hm_j, hm_cash_flows, heatmap_assigned>>
retirement == <<current_balance, years_before_retirement, annual_deposit,
                rate_of_return, withdrawal_years, max_withdrawal,
                withdrawal_amount, returns, borrowing_rate, balance,
                yearly_results, sim_year, rpc>>
vars == <<inputs, pc, summary, forecast, year, sale, project_irr, roi,
          scenarios, heatmap, retirement>>

(***************************************************************************)
(* Helpers of the script                                                   *)
(***************************************************************************)
\* property_type.startswith("Commercial")
IsCommercial(pt) == pt # "Residential"

\* property_type.split(" - ")[1].lower()
CommercialType(pt) ==
    CASE pt = "Commercial - Multifamily" -> "multifamily"
      [] pt = "Commercial - Office" -> "office"
      [] pt = "Commercial - Retail" -> "retail"
      [] pt = "Commercial - Industrial" -> "industrial"
      [] OTHER -> ""

\* Mutant of RentMultiplier: the Bullish and Bearish multipliers exchanged
RentMultiplierSwapped(s) ==
    CASE s = "Bullish" -> Pct(80)
      [] s = "Baseline" -> Pct(100)
      [] s = "Bearish" -> Pct(120)

\* {"Bullish": 1.2, "Baseline": 1.0, "Bearish": 0.8}[s]
RentMultiplier(s) ==
    CASE s = "Bullish" -> Pct(120)
      [] s = "Baseline" -> Pct(100)
      [] s = "Bearish" -> Pct(80)

\* Mutant of MonthlyMortgage: a rate of 0 gives the uniform payment l / cnt
MonthlyMortgageUniformAtZero(l, mr, cnt) ==
    IF l > 0 /\ mr > 0
    THEN Div(Mul(l, Mul(mr, Pow(Scale + mr, cnt))), Pow(Scale + mr, cnt) - Scale)
    ELSE IF l > 0 THEN l \div cnt ELSE 0

\* loan * (r * (1 + r)**n) / ((1 + r)**n - 1) if loan > 0 and r > 0 else 0
MonthlyMortgage(l, mr, cnt) ==
    IF l > 0 /\ mr > 0
    THEN Div(Mul(l, Mul(mr, Pow(Scale + mr, cnt))), Pow(Scale + mr, cnt) - Scale)
    ELSE 0

\* price * building_value_ratio / depr_period, by property type (968-993)
AnnualDepreciation(pt, p) ==
    IF IsCommercial(pt)
    THEN IF CommercialType(pt) = "multifamily"
         THEN Lit(Lit(p, 8, 10), 10, 275)
         ELSE Lit(Lit(p, 8, 10), 1, 39)
    ELSE Lit(Lit(p, 8, 10), 10, 275)

(***************************************************************************)
(* Init: the sidebar widgets have their values, nothing is computed yet    *)
(***************************************************************************)
\* The runs explored: every horizon, loan term and scenario at the default
\* rent and property type; the other rent, the other property type and the
\* failing calls of irr at the Baseline scenario and the 30-year loan.
\* src/retirement_app.py is not running: its inputs at the defaults of lines
\* 81-97 and 121-127 (amounts in cents), nothing computed
RetirementIdle ==
    /\ current_balance = 5000000
    /\ years_before_retirement = 5
    /\ annual_deposit = 1000000
    /\ rate_of_return = Pct(10)
    /\ withdrawal_years = 5
    /\ max_withdrawal = 0
    /\ withdrawal_amount = 3500000
    /\ returns = <<>>
    /\ borrowing_rate = Pct(10)
    /\ balance = 0
    /\ yearly_results = <<>>
    /\ sim_year = 0
    /\ rpc = "idle"

\* lines 803-804: the vacancy rate is the one taken from FRED
VacancyFromFred ==
    /\ use_fred_vacancy_rate = TRUE
    /\ current_vacancy_rate = vacancy

Sampled ==
    /\ base_rent # 2500 => loan_term = MaxLoanTerm /\ property_type = "Residential"
    /\ property_type # "Residential" => scenario = "Baseline" /\ loan_term = MaxLoanTerm
    /\ irr_raises # {} =>
           /\ scenario = "Baseline" /\ loan_term = MaxLoanTerm
           /\ base_rent = 2500 /\ property_type = "Residential"

Init ==
    /\ property_type \in PropertyTypes
    /\ price = 350000
    /\ down_pct \in {Pct(0), Pct(20)}
    /\ rate = Pct(6)
    /\ years \in 1..MaxYears
    /\ loan_term \in {MinLoanTerm, MaxLoanTerm}
    /\ expenses = Pct(30)
    /\ vacancy = Pct(5)
    /\ appr = Lit(Pct(25), 1, 10)
    /\ tax = Pct(25)
    /\ scenario \in ScenarioSet
    /\ base_rent \in {2500, 10000}
    /\ irr_raises \in IrrFaults
    /\ Sampled
    /\ pc = "summary"
    /\ rent = 0 /\ loan = 0 /\ r = 0 /\ n = 0 /\ monthly_mortgage = 0
    /\ annual_rent = 0 /\ noi = 0 /\ annual_mortgage = 0 /\ cash_flow = 0
    /\ annual_depreciation = 0 /\ cash_flow_with_tax_benefits = 0
    /\ cash_flows = <<>> /\ annual_cash_flows = <<>>
    /\ annual_appreciation = <<>> /\ cumulative_returns = <<>>
    /\ cumulative_value = 0 /\ year = 0
    /\ final_property_value = 0 /\ selling_costs = 0 /\ loan_balance = 0
    /\ net_proceeds = 0
    /\ project_irr = FNum(0) /\ roi = 0
    /\ scenario_comparison = [l \in ScenarioSet |-> <<>>]
    /\ cumulative_value_current = 0 /\ cumulative_investment = 0
    /\ alt_idx = 0 /\ cumulative_value_alt = 0
    /\ heatmap_data = <<>> /\ hm_i = 0 /\ hm_j = 0 /\ hm_cash_flows = <<>>
    /\ heatmap_assigned = {}
    /\ RetirementIdle
    /\ VacancyFromFred

(***************************************************************************)
(* Lines 945-998: scenario-adjusted rent, mortgage, first-year figures     *)
(***************************************************************************)
Summary ==
    /\ pc = "summary"
    /\ LET rent1 == Mul(base_rent, RentMultiplier(scenario))
           loan1 == Mul(price, Scale - down_pct)
           r1 == rate \div MonthsPerYear
           n1 == loan_term * MonthsPerYear
           mm1 == MonthlyMortgage(loan1, r1, n1)
           ar1 == rent1 * MonthsPerYear
           ei1 == ar1 - Mul(ar1, vacancy)
           noi1 == ei1 - Mul(ei1, expenses)
           am1 == mm1 * MonthsPerYear
           cf1 == noi1 - am1
           dep1 == AnnualDepreciation(property_type, price)
       IN  /\ rent' = rent1
           /\ loan' = loan1
           /\ r' = r1
           /\ n' = n1
           /\ monthly_mortgage' = mm1
           /\ annual_rent' = ar1
           /\ noi' = noi1
           /\ annual_mortgage' = am1
           /\ cash_flow' = cf1
           /\ annual_depreciation' = dep1
           /\ cash_flow_with_tax_benefits' =
                  IF IsCommercial(property_type) THEN cf1 + Mul(dep1, tax) ELSE cf1
    /\ pc' = "forecast_init"
    /\ UNCHANGED <<retirement, inputs, forecast, year, sale, project_irr, roi, scenarios, heatmap>>

(***************************************************************************)
(* Lines 1480-1487: the IRR series starts with the down payment            *)
(***************************************************************************)
ForecastBegin ==
    /\ pc = "forecast_init"
    /\ cash_flows' = << -Mul(price, down_pct) >>
    /\ annual_cash_flows' = <<>>
    /\ annual_appreciation' = <<>>
    /\ cumulative_returns' = <<>>
    /\ cumulative_value' = 0
    /\ year' = 1
    /\ pc' = "forecast"
    /\ UNCHANGED <<retirement, inputs, summary, sale, project_irr, roi, scenarios, heatmap>>

(***************************************************************************)
(* Lines 1489-1534: one iteration of the forecast loop                     *)
(***************************************************************************)
\* year_noi of year y (1491-1495)
YearNoi(y) ==
    LET year_rent == Mul(annual_rent, Pow(Scale + Pct(RentGrowthPct), y - 1))
        year_vacancy_loss == Mul(year_rent, vacancy)
        year_effective_income == year_rent - year_vacancy_loss
        year_expenses == Mul(year_effective_income, expenses)
    IN  year_effective_income - year_expenses

\* Mutant of YearDepreciation: every commercial type on the 39-year schedule
YearDepreciationCommercial39 ==
    IF IsCommercial(property_type)
    THEN Lit(Lit(price, 8, 10), 1, 39)
    ELSE Lit(Lit(price, 8, 10), 10, 275)

\* year_depreciation (1499-1512)
YearDepreciation ==
    IF IsCommercial(property_type)
    THEN IF CommercialType(property_type) = "multifamily"
         THEN Lit(Lit(price, 8, 10), 10, 275)
         ELSE Lit(Lit(price, 8, 10), 1, 39)
    ELSE Lit(Lit(price, 8, 10), 10, 275)

\* Mutant of TaxPayment: a negative taxable income is refunded (no max)
TaxPaymentRefunding(y) ==
    Mul(YearNoi(y) - annual_mortgage - YearDepreciation, tax)

\* tax_payment (1515-1516)
TaxPayment(y) ==
    LET taxable_income == YearNoi(y) - annual_mortgage - YearDepreciation
    IN  Max(0, Mul(taxable_income, tax))

\* year_cash_flow_with_tax_benefits (1496, 1519-1523)
YearCashFlowWithTaxBenefits(y) ==
    LET year_cash_flow == YearNoi(y) - annual_mortgage
        year_depreciation_tax_shield == Mul(YearDepreciation, tax)
        after_tax_cash_flow == year_cash_flow - TaxPayment(y)
    IN  after_tax_cash_flow + year_depreciation_tax_shield

\* Mutant of PropertyValue: the value at the start of year y
PropertyValueYearStart(y) == Mul(price, Pow(Scale + appr, y - 1))

\* property_value of year y (1529)
PropertyValue(y) == Mul(price, Pow(Scale + appr, y))

ForecastYear ==
    /\ pc = "forecast"
    /\ year <= years
    /\ LET cf == YearCashFlowWithTaxBenefits(year)
       IN  /\ cash_flows' = Append(cash_flows, cf)
           /\ annual_cash_flows' = Append(annual_cash_flows, cf)
           /\ annual_appreciation' =
                  Append(annual_appreciation, PropertyValue(year))
           /\ cumulative_value' = cumulative_value + cf
           /\ cumulative_returns' = Append(cumulative_returns, cumulative_value + cf)
    /\ year' = year + 1
    /\ pc' = IF year + 1 <= years THEN "forecast" ELSE "sale"
    /\ UNCHANGED <<retirement, inputs, summary, sale, project_irr, roi, scenarios, heatmap>>

(***************************************************************************)
(* Lines 1536-1550: sale of the property in the last year                  *)
(***************************************************************************)
\* loan * (1 - (1 - (1 + r)**(-n)) / (1 - (1 + r)**(-remaining_payments)))
RemainingBalance(l, mr, cnt, remaining_payments) ==
    Mul(l, Scale - Div(Scale - PowNeg(Scale + mr, cnt),
                       Scale - PowNeg(Scale + mr, remaining_payments)))

\* Mutant of LoanBalance: the loan is taken to mature a year late
LoanBalanceLateMaturity ==
    IF loan_term + 1 > years
    THEN LET payments_made == years * MonthsPerYear
             remaining_payments == (loan_term + 1) * MonthsPerYear - payments_made
         IN  IF r > 0 THEN RemainingBalance(loan, r, n, remaining_payments) ELSE 0
    ELSE 0

\* loan_balance (1539-1545)
LoanBalance ==
    IF loan_term > years
    THEN LET payments_made == years * MonthsPerYear
             remaining_payments == loan_term * MonthsPerYear - payments_made
         IN  IF r > 0 THEN RemainingBalance(loan, r, n, remaining_payments) ELSE 0
    ELSE 0

\* Mutant of FinalValue: the property loses value at the appreciation rate
FinalValueShrinking(p, a, y) == Mul(p, Pow(Scale - a, y))

\* price * (1 + appr) ** years (1537; 1771 with the rate of the cell)
FinalValue(p, a, y) == Mul(p, Pow(Scale + a, y))

\* Mutant of AddToLast: the amount is added twice
AddToLastTwice(s, x) == [s EXCEPT ![Len(s)] = s[Len(s)] + x + x]

\* cash_flows[-1] += x
AddToLast(s, x) == [s EXCEPT ![Len(s)] = s[Len(s)] + x]

TerminalSale ==
    /\ pc = "sale"
    /\ LET fpv == FinalValue(price, appr, years)
           sc == Lit(fpv, SellingCostPct, 100)
           lb == LoanBalance
           np == fpv - sc - lb
       IN  /\ final_property_value' = fpv
           /\ selling_costs' = sc
           /\ loan_balance' = lb
           /\ net_proceeds' = np
           /\ cash_flows' = IF cash_flows # <<>> THEN AddToLast(cash_flows, np)
                            ELSE cash_flows
    /\ pc' = "irr"
    /\ UNCHANGED <<retirement, inputs, summary, annual_cash_flows, annual_appreciation,
                   cumulative_returns, cumulative_value, year, project_irr, roi,
                   scenarios, heatmap>>

(***************************************************************************)
(* numpy_financial.irr (imported at line 7): the rate > -1 closest to zero *)
(* at which the net present value of the series is zero, not-a-number when *)
(* there is none.  The library takes the real positive roots x = 1/(1+rate)*)
(* of the polynomial sum(values[t] * x**t); here the roots are located by  *)
(* a scan of IrrGrid in x followed by bisection.                           *)
(***************************************************************************)
\* sum(values[t] * x**t) by Horner's rule, values indexed from 1
RECURSIVE NpvAt(_, _, _)
NpvAt(values, x, t) ==
    IF t > Len(values) THEN 0
    ELSE values[t] + Mul(NpvAt(values, x, t + 1), x)

Sign(v) == IF v > 0 THEN 1 ELSE IF v < 0 THEN -1 ELSE 0

\* discount factors scanned, in percent: rates from +9900% down to -50%
IrrGrid ==
    <<1, 2, 5, 10, 15, 20, 25, 30, 40, 50, 60, 70, 80, 90, 100, 110, 120, 130,
      140, 150, 175, 200>>

\* a root of the polynomial between lo and hi, where it changes sign
RECURSIVE Bisect(_, _, _, _)
Bisect(values, lo, hi, slo) ==
    IF hi - lo <= 1 THEN lo
    ELSE LET mid == (lo + hi) \div 2
             smid == Sign(NpvAt(values, mid, 1))
         IN  IF smid = 0 THEN mid
             ELSE IF smid = slo THEN Bisect(values, mid, hi, slo)
             ELSE Bisect(values, lo, mid, slo)

\* the roots found: one per grid point where the polynomial is zero and one
\* per grid interval over which it changes sign
IrrRoots(values) ==
    LET sg == [k \in 1..Len(IrrGrid) |-> Sign(NpvAt(values, Pct(IrrGrid[k]), 1))]
    IN  {Pct(IrrGrid[k]) : k \in {j \in 1..Len(IrrGrid) : sg[j] = 0}}
        \cup {Bisect(values, Pct(IrrGrid[k]), Pct(IrrGrid[k + 1]), sg[k]) :
                 k \in {j \in 1..(Len(IrrGrid) - 1) :
                           sg[j] * sg[j + 1] = -1}}

\* rate = 1/x - 1
RateOf(x) == Div(Scale, x) - Scale

\* the series scaled so that its largest entry has seven digits: the roots
\* are those of the series, and the rounding of the sums is then relative to
\* the entries, as it is for floats
Normalised(values) ==
    LET m == CHOOSE a \in {Abs(values[t]) : t \in 1..Len(values)} :
                 \A t \in 1..Len(values) : a >= Abs(values[t])
        f == IF m = 0 THEN 1 ELSE Max(1, Scale \div m)
    IN  [t \in 1..Len(values) |-> values[t] * f]

Irr(values) ==
    LET roots == IrrRoots(Normalised(values))
    IN  IF (\A t \in 1..Len(values) : values[t] = 0) \/ roots = {}
        THEN FNaN
        ELSE FNum(RateOf(CHOOSE x \in roots :
                 \A y \in roots :
                     \/ Abs(RateOf(x)) < Abs(RateOf(y))
                     \/ (Abs(RateOf(x)) = Abs(RateOf(y)) /\ x >= y)))

(***************************************************************************)
(* Lines 1552-1556: try: project_irr = irr(cash_flows) / except: 0         *)
(***************************************************************************)
ProjectIrr(values, raises) == IF raises THEN FNum(0) ELSE Irr(values)

ComputeIRR ==
    /\ pc = "irr"
    /\ project_irr' = ProjectIrr(cash_flows, MainCall \in irr_raises)
    /\ pc' = "roi"
    /\ UNCHANGED <<retirement, inputs, summary, forecast, year, sale, roi, scenarios, heatmap>>

(***************************************************************************)
(* Lines 1558-1560: total ROI                                              *)
(***************************************************************************)
TotalRoi ==
    LET total_profit == SumSeq(annual_cash_flows) + (final_property_value - price)
    IN  IF Mul(price, down_pct) > 0
        THEN Div(total_profit, Mul(price, down_pct))
        ELSE 0

ComputeROI ==
    /\ pc = "roi"
    /\ roi' = TotalRoi
    /\ pc' = "scenarios"
    /\ UNCHANGED <<retirement, inputs, summary, forecast, year, sale, project_irr, scenarios, heatmap>>

(***************************************************************************)
(* Lines 1634-1652: ROI series of the selected scenario                    *)
(***************************************************************************)
\* [0] * years
Zeros(k) == [t \in 1..k |-> 0]

ScenarioBegin ==
    /\ pc = "scenarios"
    /\ scenario_comparison' =
           [l \in ScenarioSet |-> IF l = scenario THEN Zeros(years) ELSE <<>>]
    /\ cumulative_value_current' = 0
    /\ cumulative_investment' = Mul(price, down_pct)
    /\ year' = 1
    /\ pc' = "scenario_current"
    /\ UNCHANGED <<retirement, inputs, summary, forecast, sale, project_irr, roi, alt_idx,
                   cumulative_value_alt, heatmap>>

\* Mutant of CumulativeValueCurrent: the year's cash flow is subtracted
CumulativeValueCurrentSubtracting(y) ==
    cumulative_value_current - annual_cash_flows[y]
        + (IF y = years THEN final_property_value - price ELSE 0)

\* cumulative_value_current after the iteration of year y (1646-1649)
CumulativeValueCurrent(y) ==
    cumulative_value_current + annual_cash_flows[y]
        + (IF y = years THEN final_property_value - price ELSE 0)

\* One iteration; the division of line 1652 raises ZeroDivisionError when
\* cumulative_investment is 0.0, which ends the script.
ScenarioCurrentYear ==
    /\ pc = "scenario_current"
    /\ year <= years
    /\ cumulative_value_current' = CumulativeValueCurrent(year)
    /\ IF cumulative_investment = 0
       THEN /\ pc' = "crashed"
            /\ UNCHANGED <<scenario_comparison, year, alt_idx>>
       ELSE /\ scenario_comparison' =
                   [scenario_comparison EXCEPT ![scenario][year] =
                       Div(CumulativeValueCurrent(year), cumulative_investment)]
            /\ year' = year + 1
            /\ pc' = IF year + 1 <= years THEN "scenario_current" ELSE "scenario_alt"
            /\ alt_idx' = IF year + 1 <= years THEN alt_idx ELSE 1
    /\ UNCHANGED <<retirement, inputs, summary, forecast, sale, project_irr, roi,
                   cumulative_investment, cumulative_value_alt, heatmap>>

(***************************************************************************)
(* Lines 1654-1702: ROI series of the other scenarios                      *)
(***************************************************************************)
\* where the script goes after alternative number k
AfterAlt(k) == IF k + 1 <= Len(Scenarios) THEN "scenario_alt" ELSE "heatmap_init"

\* lines 1656-1657: continue
AltScenarioSkip ==
    /\ pc = "scenario_alt"
    /\ Scenarios[alt_idx] = scenario
    /\ alt_idx' = alt_idx + 1
    /\ pc' = AfterAlt(alt_idx)
    /\ UNCHANGED <<retirement, inputs, summary, forecast, year, sale, project_irr, roi,
                   scenario_comparison, cumulative_value_current,
                   cumulative_investment, cumulative_value_alt, heatmap>>

\* lines 1659-1665
AltScenarioBegin ==
    /\ pc = "scenario_alt"
    /\ Scenarios[alt_idx] # scenario
    /\ scenario_comparison' =
           [scenario_comparison EXCEPT ![Scenarios[alt_idx]] = Zeros(years)]
    /\ cumulative_value_alt' = 0
    /\ year' = 1
    /\ pc' = "scenario_alt_year"
    /\ UNCHANGED <<retirement, inputs, summary, forecast, sale, project_irr, roi,
                   cumulative_value_current, cumulative_investment, alt_idx,
                   heatmap>>

\* Mutant of AltAnnualRent: the multiplier applied to the rent that is
\* already adjusted for the selected scenario
AltAnnualRentFromRent(alt_scenario) ==
    Mul(rent, RentMultiplier(alt_scenario)) * MonthsPerYear

\* alt_annual_rent (1660-1662)
AltAnnualRent(alt_scenario) ==
    Mul(base_rent, RentMultiplier(alt_scenario)) * MonthsPerYear

\* year_depreciation of the alternative scenario (1677-1688)
AltYearDepreciation ==
    IF IsCommercial(property_type)
    THEN IF CommercialType(property_type) = "multifamily"
         THEN Lit(Lit(price, 8, 10), 10, 275)
         ELSE Lit(Lit(price, 8, 10), 1, 39)
    ELSE Lit(Lit(price, 8, 10), 10, 275)

\* year_cash_flow_with_tax_benefits of the alternative scenario (1669-1693)
AltYearCashFlow(alt_scenario, y) ==
    LET year_rent == Mul(AltAnnualRent(alt_scenario),
                         Pow(Scale + Pct(RentGrowthPct), y - 1))
        year_vacancy_loss == Mul(year_rent, vacancy)
        year_effective_income == year_rent - year_vacancy_loss
        year_expenses == Mul(year_effective_income, expenses)
        year_noi == year_effective_income - year_expenses
        year_cash_flow == year_noi - annual_mortgage
        year_depreciation == AltYearDepreciation
        taxable_income == year_noi - annual_mortgage - year_depreciation
        tax_payment == Max(0, Mul(taxable_income, tax))
        year_depreciation_tax_shield == Mul(year_depreciation, tax)
    IN  year_cash_flow - tax_payment + year_depreciation_tax_shield

\* cumulative_value_alt after the iteration of year y (1695-1699)
CumulativeValueAlt(alt_scenario, y) ==
    cumulative_value_alt + AltYearCashFlow(alt_scenario, y)
        + (IF y = years THEN final_property_value - price ELSE 0)

AltScenarioYear ==
    /\ pc = "scenario_alt_year"
    /\ year <= years
    /\ cumulative_value_alt' = CumulativeValueAlt(Scenarios[alt_idx], year)
    /\ IF cumulative_investment = 0
       THEN /\ pc' = "crashed"
            /\ UNCHANGED <<scenario_comparison, year, alt_idx>>
       ELSE /\ scenario_comparison' =
                   [scenario_comparison EXCEPT ![Scenarios[alt_idx]][year] =
                       Div(CumulativeValueAlt(Scenarios[alt_idx], year),
                           cumulative_investment)]
            /\ year' = year + 1
            /\ pc' = IF year + 1 <= years THEN "scenario_alt_year"
                     ELSE AfterAlt(alt_idx)
            /\ alt_idx' = IF year + 1 <= years THEN alt_idx ELSE alt_idx + 1
    /\ UNCHANGED <<retirement, inputs, summary, forecast, sale, project_irr, roi,
                   cumulative_value_current, cumulative_investment, heatmap>>

(***************************************************************************)
(* Lines 1720-1789: IRR by appreciation rate (rows) and interest rate      *)
(* (columns)                                                               *)
(***************************************************************************)
\* np.linspace(lo, hi, HeatmapPoints)[k - 1], lo and hi in percent
Linspace(lo, hi, k) == Pct(lo) + Lit(Pct(hi) - Pct(lo), k - 1, HeatmapPoints - 1)

HeatmapAppreciation(i) == Linspace(1, 8, i)

\* Mutant of HeatmapInterest: the axis runs from 9% down to 3%
HeatmapInterestDescending(j) == Linspace(3, 9, HeatmapPoints + 1 - j)

HeatmapInterest(j) == Linspace(3, 9, j)

HeatmapCells == (1..HeatmapPoints) \X (1..HeatmapPoints)

\* lines 1720-1725: np.zeros
HeatmapBegin ==
    /\ pc = "heatmap_init"
    /\ heatmap_data' = [c \in HeatmapCells |-> FNum(0)]
    /\ hm_i' = 1
    /\ hm_j' = 1
    /\ pc' = "heatmap"
    /\ UNCHANGED <<retirement, inputs, summary, forecast, year, sale, project_irr, roi,
                   scenarios, hm_cash_flows, heatmap_assigned>>

\* annual_heatmap_mortgage (1731-1733)
AnnualHeatmapMortgage(int_rate) ==
    LET r_monthly == int_rate \div MonthsPerYear
        heatmap_mortgage ==
            IF loan > 0 /\ r_monthly > 0
            THEN Div(Mul(loan, Mul(r_monthly, Pow(Scale + r_monthly, n))),
                     Pow(Scale + r_monthly, n) - Scale)
            ELSE 0
    IN  heatmap_mortgage * MonthsPerYear

\* year_depreciation of a cell (1750-1761)
HmYearDepreciation ==
    IF IsCommercial(property_type)
    THEN IF CommercialType(property_type) = "multifamily"
         THEN Lit(Lit(price, 8, 10), 10, 275)
         ELSE Lit(Lit(price, 8, 10), 1, 39)
    ELSE Lit(Lit(price, 8, 10), 10, 275)

\* Mutant of HmYearCashFlow: the cash flow before tax
HmYearCashFlowBeforeTax(annual_heatmap_mortgage, y) ==
    YearNoi(y) - annual_heatmap_mortgage

\* year_cash_flow_with_tax_benefits of a cell (1742-1766)
HmYearCashFlow(annual_heatmap_mortgage, y) ==
    LET year_rent == Mul(annual_rent, Pow(Scale + Pct(RentGrowthPct), y - 1))
        year_vacancy_loss == Mul(year_rent, vacancy)
        year_effective_income == year_rent - year_vacancy_loss
        year_expenses == Mul(year_effective_income, expenses)
        year_noi == year_effective_income - year_expenses
        year_cash_flow == year_noi - annual_heatmap_mortgage
        year_depreciation == HmYearDepreciation
        taxable_income == year_noi - annual_heatmap_mortgage - year_depreciation
        tax_payment == Max(0, Mul(taxable_income, tax))
        year_depreciation_tax_shield == Mul(year_depreciation, tax)
    IN  year_cash_flow - tax_payment + year_depreciation_tax_shield

\* Mutant of HmLoanBalance: the balance of the main forecast, at the base
\* interest rate, is reused
HmLoanBalanceBaseRate(int_rate) == LoanBalance

\* loan_balance of a cell (1773-1779)
HmLoanBalance(int_rate) ==
    LET r_monthly == int_rate \div MonthsPerYear
    IN  IF loan_term > years
        THEN LET payments_made == years * MonthsPerYear
                 remaining_payments == loan_term * MonthsPerYear - payments_made
             IN  IF r_monthly > 0
                 THEN Mul(loan, Scale - Div(Scale - PowNeg(Scale + r_monthly, n),
                          Scale - PowNeg(Scale + r_monthly, remaining_payments)))
                 ELSE 0
        ELSE 0

\* Mutant of HmYearlyFlows: hm_cash_flows is not emptied, the flows are
\* appended to what the cell before left
HmYearlyFlowsAppended(annual_heatmap_mortgage) ==
    hm_cash_flows
        \o [y \in 1..years |-> HmYearCashFlow(annual_heatmap_mortgage, y)]

\* hm_cash_flows before the sale is added (1736-1768)
HmYearlyFlows(annual_heatmap_mortgage) ==
    << -Mul(price, down_pct) >>
        \o [y \in 1..years |-> HmYearCashFlow(annual_heatmap_mortgage, y)]

\* lines 1785-1789: try: heatmap_data[i, j] = irr(hm_cash_flows) * 100
\* except: heatmap_data[i, j] = 0
HmCellValue(values, raises) ==
    IF raises THEN FNum(0)
    ELSE LET hm_irr == Irr(values)
         IN  IF hm_irr.nan THEN FNaN ELSE FNum(hm_irr.val * 100)

\* Mutant of HmNextPc: the exception of a failing cell ends the script
HmNextPcAborting(i, j, raised) ==
    IF raised THEN "crashed"
    ELSE IF j = HeatmapPoints /\ i = HeatmapPoints THEN "done" ELSE "heatmap"

\* where the script goes after cell (i, j): the except clause of line 1788
\* swallows what irr raised, so the loops go on
HmNextPc(i, j, raised) ==
    IF j = HeatmapPoints /\ i = HeatmapPoints THEN "done" ELSE "heatmap"

\* The body of the inner loop for cell (i, j), lines 1730-1789
HeatmapCellBody(i, j) ==
    /\ LET appr_rate == HeatmapAppreciation(i)
           int_rate == HeatmapInterest(j)
           final_value == FinalValue(price, appr_rate, years)
           sc == Lit(final_value, SellingCostPct, 100)
           lb == HmLoanBalance(int_rate)
           np == final_value - sc - lb
           flows == AddToLast(HmYearlyFlows(AnnualHeatmapMortgage(int_rate)), np)
       IN  /\ selling_costs' = sc
           /\ loan_balance' = lb
           /\ net_proceeds' = np
           /\ hm_cash_flows' = flows
           /\ heatmap_data' =
                  [heatmap_data EXCEPT ![<<i, j>>] =
                      HmCellValue(flows, <<i, j>> \in irr_raises)]
    /\ heatmap_assigned' = heatmap_assigned \cup {<<i, j>>}
    /\ year' = years + 1
    /\ UNCHANGED <<retirement, inputs, summary, forecast, final_property_value,
                   project_irr, roi, scenarios>>

\* One iteration of the inner loop: cell (hm_i, hm_j)
HeatmapCell ==
    /\ pc = "heatmap"
    /\ HeatmapCellBody(hm_i, hm_j)
    /\ hm_j' = IF hm_j < HeatmapPoints THEN hm_j + 1 ELSE 1
    /\ hm_i' = IF hm_j < HeatmapPoints THEN hm_i ELSE hm_i + 1
    /\ pc' = HmNextPc(hm_i, hm_j, <<hm_i, hm_j>> \in irr_raises)

Next ==
    \/ Summary
    \/ ForecastBegin
    \/ ForecastYear
    \/ TerminalSale
    \/ ComputeIRR
    \/ ComputeROI
    \/ ScenarioBegin
    \/ ScenarioCurrentYear
    \/ AltScenarioSkip
    \/ AltScenarioBegin
    \/ AltScenarioYear
    \/ HeatmapBegin
    \/ HeatmapCell

Spec == Init /\ [][Next]_vars

(***************************************************************************)
(* The script with the bodies of the heatmap loop run in any order over    *)
(* the cells of OrderCells: each body runs on the script-level variables   *)
(* as the body before it left them.                                        *)
(***************************************************************************)
OrderCells == {<<1, 1>>, <<1, 8>>, <<2, 3>>, <<8, 1>>, <<8, 8>>}

InitAnyOrder ==
    /\ Init
    /\ property_type = "Residential"
    /\ scenario = "Baseline"
    /\ base_rent = 2500
    /\ down_pct = Pct(20)

HeatmapCellAnyOrder ==
    /\ pc = "heatmap"
    /\ \E c \in OrderCells \ heatmap_assigned :
           /\ HeatmapCellBody(c[1], c[2])
           /\ hm_i' = c[1]
           /\ hm_j' = c[2]
           /\ pc' = IF heatmap_assigned \cup {c} = OrderCells
                    THEN "done" ELSE "heatmap"

NextAnyOrder ==
    \/ Summary
    \/ ForecastBegin
    \/ ForecastYear
    \/ TerminalSale
    \/ ComputeIRR
    \/ ComputeROI
    \/ ScenarioBegin
    \/ ScenarioCurrentYear
    \/ AltScenarioSkip
    \/ AltScenarioBegin
    \/ AltScenarioYear
    \/ HeatmapBegin
    \/ HeatmapCellAnyOrder

SpecAnyOrder == InitAnyOrder /\ [][NextAnyOrder]_vars

\* the script is at line 945 and has computed nothing
ScriptStart ==
    /\ pc = "summary"
    /\ rent = 0 /\ loan = 0 /\ r = 0 /\ n = 0 /\ monthly_mortgage = 0
    /\ annual_rent = 0 /\ noi = 0 /\ annual_mortgage = 0 /\ cash_flow = 0
    /\ annual_depreciation = 0 /\ cash_flow_with_tax_benefits = 0
    /\ cash_flows = <<>> /\ annual_cash_flows = <<>>
    /\ annual_appreciation = <<>> /\ cumulative_returns = <<>>
    /\ cumulative_value = 0 /\ year = 0
    /\ final_property_value = 0 /\ selling_costs = 0 /\ loan_balance = 0
    /\ net_proceeds = 0
    /\ project_irr = FNum(0) /\ roi = 0
    /\ scenario_comparison = [l \in ScenarioSet |-> <<>>]
    /\ cumulative_value_current = 0 /\ cumulative_investment = 0
    /\ alt_idx = 0 /\ cumulative_value_alt = 0
    /\ heatmap_data = <<>> /\ hm_i = 0 /\ hm_j = 0 /\ hm_cash_flows = <<>>
    /\ heatmap_assigned = {}

(***************************************************************************)
(* The script on a vacancy rate taken from FRED (lines 746, 803-804):      *)
(* float(observation value) / 100, whatever the observation is             *)
(***************************************************************************)
FredVacancy == {Pct(150), -Pct(5)}

InitUnvalidated ==
    /\ property_type = "Residential"
    /\ price = 350000
    /\ down_pct = Pct(20)
    /\ rate = Pct(6)
    /\ years \in 1..MaxYears
    /\ loan_term = MaxLoanTerm
    /\ expenses = Pct(30)
    /\ vacancy \in FredVacancy
    /\ appr = Lit(Pct(25), 1, 10)
    /\ tax = Pct(25)
    /\ scenario \in ScenarioSet
    /\ base_rent = 2500
    /\ irr_raises = {}
    /\ ScriptStart
    /\ RetirementIdle
    /\ VacancyFromFred

SpecUnvalidated == InitUnvalidated /\ [][Next]_vars

(***************************************************************************)
(* The script at the ends of the input ranges: a down payment of 100%      *)
(* (slider of line 669), which makes the loan 0, and a mortgage rate of 0  *)
(* taken from FRED (lines 724, 758-759)                                    *)
(***************************************************************************)
InitEdge ==
    /\ property_type = "Residential"
    /\ price = 350000
    /\ down_pct \in {Pct(20), Pct(100)}
    /\ rate \in {0, Pct(6)}
    /\ years \in 1..MaxYears
    /\ loan_term \in {MinLoanTerm, MaxLoanTerm}
    /\ expenses = Pct(30)
    /\ vacancy = Pct(5)
    /\ appr = Lit(Pct(25), 1, 10)
    /\ tax = Pct(25)
    /\ scenario = "Baseline"
    /\ base_rent = 2500
    /\ irr_raises = {}
    /\ ScriptStart
    /\ RetirementIdle
    /\ VacancyFromFred

SpecEdge == InitEdge /\ [][Next]_vars

(***************************************************************************)
(* The script on an appreciation rate (slider of line 825) and a mortgage  *)
(* rate (FRED value or slider of line 768) that are points of the heatmap  *)
(* axes of lines 1721-1722                                                 *)
(***************************************************************************)
InitOnAxes ==
    /\ property_type \in PropertyTypes
    /\ price = 350000
    /\ down_pct = Pct(20)
    /\ rate \in {Pct(3), Pct(9)}
    /\ years \in 1..MaxYears
    /\ loan_term \in {MinLoanTerm, MaxLoanTerm}
    /\ expenses = Pct(30)
    /\ vacancy = Pct(5)
    /\ appr \in {Pct(2), Pct(8)}
    /\ tax = Pct(25)
    /\ scenario = "Baseline"
    /\ base_rent = 2500
    /\ irr_raises = {}
    /\ ScriptStart
    /\ RetirementIdle
    /\ VacancyFromFred

SpecOnAxes == InitOnAxes /\ [][Next]_vars

(***************************************************************************)
(* The script on every property type of the selectbox of lines 639-644     *)
(***************************************************************************)
AllPropertyTypes ==
    {"Residential", "Commercial - Multifamily", "Commercial - Office",
     "Commercial - Retail", "Commercial - Industrial"}

InitTypes ==
    /\ property_type \in AllPropertyTypes
    /\ price = 350000
    /\ down_pct = Pct(20)
    /\ rate = Pct(6)
    /\ years \in 1..2
    /\ loan_term = MaxLoanTerm
    /\ expenses = Pct(30)
    /\ vacancy = Pct(5)
    /\ appr = Lit(Pct(25), 1, 10)
    /\ tax = Pct(25)
    /\ scenario = "Baseline"
    /\ base_rent \in {2500, 10000}
    /\ irr_raises = {}
    /\ ScriptStart
    /\ RetirementIdle
    /\ VacancyFromFred

SpecTypes == InitTypes /\ [][Next]_vars

(***************************************************************************)
(* The script on a holding period (slider of line 780, 1..30) that reaches *)
(* past the shortest loan term (slider of line 781, 5..30)                 *)
(***************************************************************************)
InitLongHold ==
    /\ property_type \in PropertyTypes
    /\ price = 350000
    /\ down_pct = Pct(20)
    /\ rate = Pct(6)
    /\ years \in MinLoanTerm..(MinLoanTerm + 2)
    /\ loan_term = MinLoanTerm
    /\ expenses = Pct(30)
    /\ vacancy = Pct(5)
    /\ appr = Lit(Pct(25), 1, 10)
    /\ tax = Pct(25)
    /\ scenario = "Baseline"
    /\ base_rent \in {2500, 10000}
    /\ irr_raises = {}
    /\ ScriptStart
    /\ RetirementIdle
    /\ VacancyFromFred

SpecLongHold == InitLongHold /\ [][Next]_vars

(***************************************************************************)
(* The vacancy input of the sidebar (lines 802-823) followed by the        *)
(* script.  st.sidebar.slider(label, min_value, max_value, value, step)    *)
(* returns value until the user moves the slider, then a point of the      *)
(* range; it raises StreamlitAPIException when value is outside the range, *)
(* which ends the run of the script.  Slider numbers are in 1/Scale units. *)
(***************************************************************************)
\* default_vacancy (808-821)
DefaultVacancy(pt) ==
    IF IsCommercial(pt)
    THEN CASE CommercialType(pt) = "multifamily" -> Pct(5)
           [] CommercialType(pt) = "office" -> Pct(10)
           [] CommercialType(pt) = "retail" -> Pct(8)
           [] CommercialType(pt) = "industrial" -> Pct(5)
           [] OTHER -> Pct(7)
    ELSE Pct(5)

\* the arguments of the slider of line 823: 0.0, 0.3, float(default_vacancy*100)
VacancySlider(pt) ==
    [min_value |-> 0, max_value |-> Lit(Scale, 3, 10),
     value |-> DefaultVacancy(pt) * 100]

\* value is outside the range of the slider
SliderRaises(w) == w.value < w.min_value \/ w.value > w.max_value

\* what the slider returns: its default, or an end of the range chosen by
\* the user
SliderValues(w) == {w.value, w.min_value, w.max_value}

VacancyInput ==
    /\ pc = "vacancy_input"
    /\ IF use_fred_vacancy_rate
       THEN /\ vacancy' = current_vacancy_rate
            /\ pc' = "summary"
       ELSE IF SliderRaises(VacancySlider(property_type))
            THEN /\ pc' = "widget_error"
                 /\ UNCHANGED vacancy
            ELSE /\ \E v \in SliderValues(VacancySlider(property_type)) :
                        vacancy' = Lit(v, 1, 100)
                 /\ pc' = "summary"
    /\ UNCHANGED <<property_type, price, down_pct, rate, years, loan_term,
                   expenses, appr, tax, scenario, base_rent,
                   use_fred_vacancy_rate, current_vacancy_rate, irr_raises>>
    /\ UNCHANGED <<retirement, summary, forecast, year, sale, project_irr, roi,
                   scenarios, heatmap>>

\* the script has computed nothing (as ScriptStart) and is at line 802
AtVacancyInput ==
    /\ pc = "vacancy_input"
    /\ vacancy = 0
    /\ rent = 0 /\ loan = 0 /\ r = 0 /\ n = 0 /\ monthly_mortgage = 0
    /\ annual_rent = 0 /\ noi = 0 /\ annual_mortgage = 0 /\ cash_flow = 0
    /\ annual_depreciation = 0 /\ cash_flow_with_tax_benefits = 0
    /\ cash_flows = <<>> /\ annual_cash_flows = <<>>
    /\ annual_appreciation = <<>> /\ cumulative_returns = <<>>
    /\ cumulative_value = 0 /\ year = 0
    /\ final_property_value = 0 /\ selling_costs = 0 /\ loan_balance = 0
    /\ net_proceeds = 0
    /\ project_irr = FNum(0) /\ roi = 0
    /\ scenario_comparison = [l \in ScenarioSet |-> <<>>]
    /\ cumulative_value_current = 0 /\ cumulative_investment = 0
    /\ alt_idx = 0 /\ cumulative_value_alt = 0
    /\ heatmap_data = <<>> /\ hm_i = 0 /\ hm_j = 0 /\ hm_cash_flows = <<>>
    /\ heatmap_assigned = {}

\* use_fred_vacancy_rate is False when FRED is unticked or its block failed
\* (675, 754) or the override is ticked (752), True otherwise
InitSidebar ==
    /\ property_type \in AllPropertyTypes
    /\ price = 350000
    /\ down_pct = Pct(20)
    /\ rate = Pct(6)
    /\ years \in 1..2
    /\ loan_term = MaxLoanTerm
    /\ expenses = Pct(30)
    /\ appr = Lit(Pct(25), 1, 10)
    /\ tax = Pct(25)
    /\ scenario = "Baseline"
    /\ base_rent = 2500
    /\ use_fred_vacancy_rate \in BOOLEAN
    /\ current_vacancy_rate \in {Pct(5), Pct(7)}
    /\ irr_raises = {}
    /\ AtVacancyInput
    /\ RetirementIdle

NextSidebar ==
    \/ VacancyInput
    \/ Next

SpecSidebar == InitSidebar /\ [][NextSidebar]_vars

(***************************************************************************)
(* The IRR step alone, on series drawn from a bounded set                  *)
(***************************************************************************)
MaxSeriesLen == 3
SeriesEntries == {-100, -50, 0, 50, 100}
SeriesSet ==
    UNION {[1..k -> SeriesEntries] : k \in 2..MaxSeriesLen}

InitIrr ==
    /\ property_type = "Residential"
    /\ price = 350000
    /\ down_pct = Pct(20)
    /\ rate = Pct(6)
    /\ years = 1
    /\ loan_term = MaxLoanTerm
    /\ expenses = Pct(30)
    /\ vacancy = Pct(5)
    /\ appr = Lit(Pct(25), 1, 10)
    /\ tax = Pct(25)
    /\ scenario = "Baseline"
    /\ base_rent = 2500
    /\ irr_raises \in {{}, {MainCall}}
    /\ pc = "irr"
    /\ rent = 0 /\ loan = 0 /\ r = 0 /\ n = 0 /\ monthly_mortgage = 0
    /\ annual_rent = 0 /\ noi = 0 /\ annual_mortgage = 0 /\ cash_flow = 0
    /\ annual_depreciation = 0 /\ cash_flow_with_tax_benefits = 0
    /\ cash_flows \in SeriesSet
    /\ annual_cash_flows = <<>>
    /\ annual_appreciation = <<>> /\ cumulative_returns = <<>>
    /\ cumulative_value = 0 /\ year = 0
    /\ final_property_value = 0 /\ selling_costs = 0 /\ loan_balance = 0
    /\ net_proceeds = 0
    /\ project_irr = FNum(0) /\ roi = 0
    /\ scenario_comparison = [l \in ScenarioSet |-> <<>>]
    /\ cumulative_value_current = 0 /\ cumulative_investment = 0
    /\ alt_idx = 0 /\ cumulative_value_alt = 0
    /\ heatmap_data = <<>> /\ hm_i = 0 /\ hm_j = 0 /\ hm_cash_flows = <<>>
    /\ heatmap_assigned = {}
    /\ RetirementIdle
    /\ VacancyFromFred

NextIrr == ComputeIRR

SpecIrr == InitIrr /\ [][NextIrr]_vars

(***************************************************************************)
(* src/retirement_app.py.  Part 1 (lines 81-107): the button calls         *)
(* calculate_max_withdrawal on the inputs.  Part 2 (lines 133-161): each   *)
(* simulation draws returns = np.random.normal(mean_return, std_dev,       *)
(* total_years) and calls calculate_yearly_balances; one call is followed. *)
(* The amounts of this script are whole numbers of cents: line 22 divides  *)
(* an amount by the rate, which multiplies what the rounding of the amount *)
(* left out.                                                               *)
(***************************************************************************)
\* d dollars
Dollars(d) == d * 100

MaxBefore == 2
MaxWithdrawalYears == 3

\* yearly returns drawn: any value; with std_dev = 0 all equal mean_return
ReturnSet == {-Pct(5), 0, Pct(10)}

\* the real-estate script is not running
RealEstateIdle ==
    /\ property_type = "Residential"
    /\ price = 350000
    /\ down_pct = Pct(20)
    /\ rate = Pct(6)
    /\ years = 1
    /\ loan_term = MaxLoanTerm
    /\ expenses = Pct(30)
    /\ vacancy = Pct(5)
    /\ appr = Lit(Pct(25), 1, 10)
    /\ tax = Pct(25)
    /\ scenario = "Baseline"
    /\ base_rent = 2500
    /\ irr_raises = {}
    /\ ScriptStart
    /\ VacancyFromFred

InitRetirement ==
    /\ current_balance \in {0, Dollars(50000)}
    /\ years_before_retirement \in 0..MaxBefore
    /\ annual_deposit \in {0, Dollars(10000)}
    /\ rate_of_return \in ReturnSet
    /\ withdrawal_years \in 1..MaxWithdrawalYears
    /\ max_withdrawal = 0
    /\ withdrawal_amount = Dollars(35000)
    /\ returns = <<>>
    /\ borrowing_rate = Pct(10)
    /\ balance = 0
    /\ yearly_results = <<>>
    /\ sim_year = 0
    /\ rpc = "part1"
    /\ RealEstateIdle

\* current_balance * (1 + rate_of_return) ** years_before_retirement (16)
FutureBalance ==
    Mul(current_balance, Pow(Scale + rate_of_return, years_before_retirement))

\* fv_deposits (18-25), where the division of line 22 is defined
FvDeposits ==
    IF annual_deposit # 0
    THEN Div(Mul(annual_deposit,
                 Pow(Scale + rate_of_return, years_before_retirement) - Scale),
             rate_of_return)
    ELSE 0

\* Mutant of PvFactor: the withdrawals are taken at the start of each year
PvFactorAnnuityDue ==
    IF rate_of_return # 0
    THEN Mul(Div(Scale - PowNeg(Scale + rate_of_return, withdrawal_years),
                 rate_of_return),
             Scale + rate_of_return)
    ELSE withdrawal_years * Scale

\* pv_factor (27-30)
PvFactor ==
    IF rate_of_return # 0
    THEN Div(Scale - PowNeg(Scale + rate_of_return, withdrawal_years),
             rate_of_return)
    ELSE withdrawal_years * Scale

\* (future_balance + fv_deposits) / pv_factor (32)
MaxWithdrawal == Div(FutureBalance + FvDeposits, PvFactor)

\* ZeroDivisionError: x / rate_of_return at line 22 with rate_of_return = 0.0,
\* 0.0 ** -withdrawal_years at line 28 with rate_of_return = -1.0
MaxWithdrawalRaises ==
    \/ annual_deposit # 0 /\ rate_of_return = 0
    \/ rate_of_return = -Scale

\* lines 99-107: the button of part 1
CalculateMaxWithdrawal ==
    /\ rpc = "part1"
    /\ IF MaxWithdrawalRaises
       THEN /\ rpc' = "raised"
            /\ UNCHANGED max_withdrawal
       ELSE /\ max_withdrawal' = MaxWithdrawal
            /\ rpc' = "calculated"
    /\ UNCHANGED <<current_balance, years_before_retirement, annual_deposit,
                   rate_of_return, withdrawal_years, withdrawal_amount, returns,
                   borrowing_rate, balance, yearly_results, sim_year>>
    /\ UNCHANGED <<inputs, pc, summary, forecast, year, sale, project_irr, roi,
                   scenarios, heatmap>>

\* years_before_retirement + withdrawal_years (46)
TotalYears == years_before_retirement + withdrawal_years

\* the paths of returns followed: the constant ones and an alternating one
ReturnPaths ==
    {[t \in 1..TotalYears |-> x] : x \in ReturnSet}
        \cup {[t \in 1..TotalYears |-> IF t % 2 = 1 THEN Pct(10) ELSE -Pct(5)]}

\* the amounts entered at line 121: the default, or the result of part 1
WithdrawalAmounts ==
    {Dollars(35000)} \cup (IF rpc = "calculated" THEN {max_withdrawal} ELSE {})

\* lines 121-123, 144-155 and 46-48: a call of calculate_yearly_balances
SimulationBegin ==
    /\ rpc \in {"calculated", "raised"}
    /\ withdrawal_amount' \in WithdrawalAmounts
    /\ returns' \in ReturnPaths
    /\ balance' = current_balance
    /\ yearly_results' = <<>>
    /\ sim_year' = 0
    /\ rpc' = "simulating"
    /\ UNCHANGED <<current_balance, years_before_retirement, annual_deposit,
                   rate_of_return, withdrawal_years, max_withdrawal,
                   borrowing_rate>>
    /\ UNCHANGED <<inputs, pc, summary, forecast, year, sale, project_irr, roi,
                   scenarios, heatmap>>

\* lines 51-57 for year = y (counted from 0): the record of the year
YearlyResult(y) ==
    LET beginning_balance == balance
        yrate == IF beginning_balance > 0 THEN returns[y + 1] ELSE borrowing_rate
        gain_loss == Mul(beginning_balance, yrate)
        deposit_withdrawal ==
            IF y < years_before_retirement THEN annual_deposit
            ELSE -withdrawal_amount
    IN  [Year |-> y + 1,
         BeginningBalance |-> beginning_balance,
         Return |-> yrate,
         GainLoss |-> gain_loss,
         DepositWithdrawal |-> deposit_withdrawal,
         EndingBalance |-> beginning_balance + gain_loss + deposit_withdrawal]

\* lines 50-68: one iteration of the loop; line 70 after the last one
SimulationYear ==
    /\ rpc = "simulating"
    /\ sim_year < TotalYears
    /\ balance' = YearlyResult(sim_year).EndingBalance
    /\ yearly_results' = Append(yearly_results, YearlyResult(sim_year))
    /\ sim_year' = sim_year + 1
    /\ rpc' = IF sim_year + 1 < TotalYears THEN "simulating" ELSE "returned"
    /\ UNCHANGED <<current_balance, years_before_retirement, annual_deposit,
                   rate_of_return, withdrawal_years, max_withdrawal,
                   withdrawal_amount, returns, borrowing_rate>>
    /\ UNCHANGED <<inputs, pc, summary, forecast, year, sale, project_irr, roi,
                   scenarios, heatmap>>

NextRetirement ==
    \/ CalculateMaxWithdrawal
    \/ SimulationBegin
    \/ SimulationYear

SpecRetirement == InitRetirement /\ [][NextRetirement]_vars

(***************************************************************************)
(* Properties                                                              *)
(***************************************************************************)
\* the script has passed the terminal sale (line 1550)
AfterSale ==
    pc \in {"irr", "roi", "scenarios", "scenario_current", "scenario_alt",
            "scenario_alt_year", "heatmap_init", "heatmap", "done", "crashed"}

\* the heatmap loop has not yet overwritten selling_costs, loan_balance and
\* net_proceeds
SaleValuesFresh == AfterSale /\ pc \notin {"heatmap", "done"}

\* m times the step balance := balance * (1 + r) - payment
RECURSIVE MonthlySteps(_, _, _, _)
MonthlySteps(bal, payment, mr, m) ==
    IF m = 0 THEN bal
    ELSE Mul(MonthlySteps(bal, payment, mr, m - 1), Scale + mr) - payment

\* the balances after 0, 1, ..., y whole years of payments
RECURSIVE YearEndBalances(_, _, _, _)
YearEndBalances(l, payment, mr, y) ==
    IF y = 0 THEN <<l>>
    ELSE LET prev == YearEndBalances(l, payment, mr, y - 1)
         IN  Append(prev, MonthlySteps(prev[Len(prev)], payment, mr, MonthsPerYear))

\* The balance of a loan of l at monthly rate mr after k level payments of
\* MonthlyMortgage(l, mr, cnt): k times balance := balance * (1 + r) - payment
AmortizedBalance(l, mr, cnt, k) ==
    LET ends == YearEndBalances(l, MonthlyMortgage(l, mr, cnt), mr,
                                k \div MonthsPerYear)
    IN  MonthlySteps(ends[Len(ends)], MonthlyMortgage(l, mr, cnt), mr,
                     k % MonthsPerYear)

\* rounding allowed when two ways of computing a balance are compared: 1%
BalanceTol(l) == Lit(l, 1, 100)

\* C1: for L > 0, r > 0 and 0 < k < n the remaining balance computed by the
\* terminal sale equals the balance reached from L by k steps
\* balance := balance * (1 + r) - monthlyPayment(L, r, n); it lies between 0
\* and L and does not increase with k.
C1_BalanceIsAmortized ==
    (pc = "irr" /\ loan > 0 /\ r > 0 /\ loan_term > years) =>
        /\ Abs(loan_balance - AmortizedBalance(loan, r, n, years * MonthsPerYear))
               <= BalanceTol(loan)
        /\ 0 <= loan_balance /\ loan_balance <= loan
        /\ \A k \in 1..(years - 1) :
               RemainingBalance(loan, r, n, n - (k + 1) * MonthsPerYear)
                   <= RemainingBalance(loan, r, n, n - k * MonthsPerYear)

\* final value - selling costs - loan balance, from the inputs
NetProceedsOfSale ==
    final_property_value - Lit(final_property_value, SellingCostPct, 100)
        - LoanBalance

\* C2: the series given to irr has years + 1 entries: minus the down
\* payment, then the yearly after-tax cash flows unchanged, the last of them
\* increased by the net sale proceeds, once.
C2_SeriesShape ==
    AfterSale =>
        /\ Len(cash_flows) = years + 1
        /\ Len(annual_cash_flows) = years
        /\ cash_flows[1] = -Mul(price, down_pct)
        /\ \A t \in 1..(years - 1) : cash_flows[t + 1] = annual_cash_flows[t]
        /\ cash_flows[years + 1] = annual_cash_flows[years] + NetProceedsOfSale
        /\ SaleValuesFresh => net_proceeds = NetProceedsOfSale

C2_Witness ==
    /\ pc = "roi"
    /\ years >= 2
    /\ NetProceedsOfSale > 0
    /\ cash_flows[years + 1] > annual_cash_flows[years]

\* C3: the year-N entry of the cumulative-return series, in the forecast and
\* in the scenario comparison, is built from the post-sale year-N cash flow
\* (it includes the net sale proceeds added to the IRR series), and no
\* earlier year includes them.
C3_CumulativeIncludesSale ==
    /\ AfterSale =>
           /\ cumulative_returns[years] = SumSeq(Tail(cash_flows))
           /\ \A t \in 1..(years - 1) :
                  cumulative_returns[t] = SumSeq(SubSeq(annual_cash_flows, 1, t))
    /\ pc \in {"scenario_alt", "scenario_alt_year", "heatmap_init"} =>
           cumulative_value_current = SumSeq(Tail(cash_flows))

\* dollars by which two ways of rounding the same amount may differ
CashTol == 2

\* R0 * (1 + g)^(t-1) * (1 - vacancy) * (1 - expenses)
FormulaNoi(t) ==
    Mul(Mul(Mul(annual_rent, Pow(Scale + Pct(RentGrowthPct), t - 1)),
            Scale - vacancy),
        Scale - expenses)

\* (NOI - D) - max(0, (NOI - D - Dep) * tax) + Dep * tax
FormulaAfterTax(t) ==
    (FormulaNoi(t) - annual_mortgage)
        - Max(0, Mul(FormulaNoi(t) - annual_mortgage - annual_depreciation, tax))
        + Mul(annual_depreciation, tax)

\* C4: the after-tax cash flow of every year t is
\* (NOI - D) - max(0, (NOI - D - Dep) * tax) + Dep * tax with
\* NOI = R0 * (1 + g)^(t-1) * (1 - vacancy) * (1 - expenses): a negative
\* taxable income is taxed 0, not refunded.
C4_AfterTaxCashFlow ==
    \A t \in 1..Len(annual_cash_flows) :
        Abs(annual_cash_flows[t] - FormulaAfterTax(t)) <= CashTol

C4_Witness ==
    /\ pc = "sale"
    /\ years >= 2
    /\ FormulaNoi(1) - annual_mortgage - annual_depreciation < -100
    /\ annual_cash_flows[1]
           = YearNoi(1) - annual_mortgage + Mul(annual_depreciation, tax)

\* C5: at the sale the loan balance is 0 when the holding period is at least
\* the loan term, and otherwise the remaining balance after years * 12 of
\* loan_term * 12 payments; net proceeds = final value - 6% selling costs -
\* that balance, with final value = price * (1 + appreciation)^years.
C5_LoanBalanceAtSale ==
    pc = "irr" =>
        /\ final_property_value = Mul(price, Pow(Scale + appr, years))
        /\ net_proceeds =
               final_property_value
                   - Lit(final_property_value, SellingCostPct, 100) - loan_balance
        /\ IF years >= loan_term
           THEN loan_balance = 0
           ELSE Abs(loan_balance
                        - AmortizedBalance(loan, r, loan_term * MonthsPerYear,
                                           years * MonthsPerYear))
                    <= BalanceTol(loan)

\* a series without a sign change that can produce a root
Degenerate(s) ==
    \/ \A t \in 1..Len(s) : s[t] >= 0
    \/ \A t \in 1..Len(s) : s[t] <= 0
    \/ s = <<100, -50, -50>>

C7_FailedCellIsSentinel ==
    \A c \in heatmap_assigned :
        /\ c \in irr_raises => heatmap_data[c].nan
        /\ heatmap_data[c] = FNum(0) => c \notin irr_raises

\* the cells that come before (i, j) in row-major order
CellsBefore(i, j) ==
    {c \in HeatmapCells : c[1] < i \/ (c[1] = i /\ c[2] < j)}

\* C8: a failure of irr in one cell does not end the sweep: the loop writes
\* the cells in row-major order, whatever irr did in the cells before, and
\* when the heatmap is finished every cell has been written by its own run.
C8_SweepCompletes ==
    /\ pc = "done" => heatmap_assigned = HeatmapCells
    /\ pc = "heatmap" => heatmap_assigned = CellsBefore(hm_i, hm_j)
    /\ heatmap_assigned # {} => pc \in {"heatmap", "done"}

C8_Witness ==
    /\ pc = "done"
    /\ <<2, 3>> \in irr_raises
    /\ heatmap_assigned = HeatmapCells

\* the scenario comparison has filled the three ROI columns
ScenariosDone == pc \in {"heatmap_init", "heatmap", "done"}

\* C9: at every year the ROI of Bullish is at least that of Baseline, which
\* is at least that of Bearish, whichever scenario is the selected one.
C9_RoiOrdered ==
    ScenariosDone =>
        \A y \in 1..years :
            /\ scenario_comparison["Bullish"][y] >= scenario_comparison["Baseline"][y]
            /\ scenario_comparison["Baseline"][y] >= scenario_comparison["Bearish"][y]

C9_Witness ==
    /\ pc = "heatmap_init"
    /\ scenario = "Bearish"
    /\ years >= 2
    /\ scenario_comparison["Bullish"][1] > scenario_comparison["Baseline"][1]
    /\ scenario_comparison["Baseline"][years] > scenario_comparison["Bearish"][years]

\* the running sum of the cash flows recomputed for a label (1667-1695)
RECURSIVE AltCumulative(_, _)
AltCumulative(label, y) ==
    IF y = 0 THEN 0
    ELSE AltCumulative(label, y - 1) + AltYearCashFlow(label, y)

\* the ROI of a label at year y as lines 1659-1702 recompute it
RecomputedRoi(label, y) ==
    Div(AltCumulative(label, y)
            + (IF y = years THEN final_property_value - price ELSE 0),
        Mul(price, down_pct))

\* C10: the ROI series of a label is the forecast re-run with the base rent
\* times the label's multiplier and nothing else changed, over
\* price * down_pct: the series of the selected label, taken from the main
\* forecast, is what the recomputation for that label gives.
C10_SameSeries ==
    pc = "heatmap_init" =>
        \A l \in ScenarioSet : \A y \in 1..years :
            scenario_comparison[l][y] = RecomputedRoi(l, y)

C10_Witness ==
    /\ pc = "heatmap_init"
    /\ scenario = "Bullish"
    /\ years >= 2
    /\ scenario_comparison["Bullish"][years] = RecomputedRoi("Bullish", years)
    /\ scenario_comparison["Bullish"][years] # scenario_comparison["Baseline"][years]

(***************************************************************************)
(* The pipeline of the main forecast with the appreciation rate and the    *)
(* annual interest rate as parameters (lines 951-954, 1491-1523, 1537-1550)*)
(***************************************************************************)
\* annual debt service at annual interest rate int_rate
GridDebtService(int_rate) ==
    MonthlyMortgage(loan, int_rate \div MonthsPerYear, n) * MonthsPerYear

\* after-tax cash flow of year t with annual debt service d
GridAfterTax(d, t) ==
    (YearNoi(t) - d) - Max(0, Mul(YearNoi(t) - d - YearDepreciation, tax))
        + Mul(YearDepreciation, tax)

\* loan balance at the sale at annual interest rate int_rate
GridBalance(int_rate) ==
    IF loan_term > years /\ int_rate \div MonthsPerYear > 0
    THEN RemainingBalance(loan, int_rate \div MonthsPerYear, n,
                          loan_term * MonthsPerYear - years * MonthsPerYear)
    ELSE 0

\* net sale proceeds at appreciation a and annual interest rate int_rate
GridProceeds(a, int_rate) ==
    FinalValue(price, a, years)
        - Lit(FinalValue(price, a, years), SellingCostPct, 100)
        - GridBalance(int_rate)

\* the series: down payment, yearly flows, the last one with the proceeds
GridSeries(a, int_rate, d) ==
    AddToLast(<< -Mul(price, down_pct) >> \o [t \in 1..years |-> GridAfterTax(d, t)],
              GridProceeds(a, int_rate))

\* the IRR of the pipeline run at appreciation a and interest rate int_rate
GridIrr(a, int_rate) == Irr(GridSeries(a, int_rate, GridDebtService(int_rate)))

\* a float times 100
Times100(f) == IF f.nan THEN FNaN ELSE FNum(f.val * 100)

\* the cells whose call of irr returned
ComputedCells == heatmap_assigned \ irr_raises

\* both axes ascend
AxesAscending ==
    \A k \in 1..(HeatmapPoints - 1) :
        /\ HeatmapAppreciation(k) < HeatmapAppreciation(k + 1)
        /\ HeatmapInterest(k) < HeatmapInterest(k + 1)

CellReference(c) ==
    IF c \in irr_raises THEN FNum(0)
    ELSE Times100(GridIrr(HeatmapAppreciation(c[1]), HeatmapInterest(c[2])))

ComparatorAndGrid ==
    {"scenarios", "scenario_current", "scenario_alt", "scenario_alt_year",
     "heatmap_init", "heatmap"}

\* the values the main pipeline produced
MainValues ==
    <<cash_flows, annual_cash_flows, cumulative_returns, project_irr, roi,
      final_property_value, selling_costs, loan_balance, net_proceeds>>

\* a step taken inside the comparison or the heatmap keeps them
StageKeepsMainValues == pc \in ComparatorAndGrid => UNCHANGED MainValues

\* C13: no step of the scenario comparison or of the heatmap changes a value
\* produced by the main pipeline: the cash-flow series, the yearly after-tax
\* cash flows, the cumulative returns, the IRR, the total ROI, the final
\* value, the selling costs, the loan balance and the net proceeds.
C13_MainValuesKept ==
    [][StageKeepsMainValues]_vars

\* a fraction lies in [0, 1]
IsFraction(f) == 0 <= f /\ f <= Scale

\* positive price, fractions in [0, 1], positive holding period and loan term
ValidConfiguration ==
    /\ price > 0
    /\ IsFraction(down_pct) /\ IsFraction(vacancy) /\ IsFraction(expenses)
    /\ IsFraction(tax)
    /\ years >= 1 /\ loan_term >= 1

\* no cash-flow series, yearly record, ROI series or grid cell exists and
\* the script has not gone past the first-year summary
NothingComputed ==
    /\ pc \in {"summary", "forecast_init"}
    /\ cash_flows = <<>> /\ annual_cash_flows = <<>>
    /\ cumulative_returns = <<>>
    /\ \A l \in ScenarioSet : scenario_comparison[l] = <<>>
    /\ heatmap_assigned = {}

\* C14: a configuration with a non-positive price, a fraction outside
\* [0, 1] or a non-positive holding period or loan term is rejected before
\* the simulation starts: nothing is computed from it.
C14_InvalidRejected == ~ValidConfiguration => NothingComputed

\* L * r * (1+r)^n / ((1+r)^n - 1)
LevelPayment(l, mr, cnt) ==
    Div(Mul(Mul(l, mr), Pow(Scale + mr, cnt)), Pow(Scale + mr, cnt) - Scale)

\* the divisor of the payment formula
PaymentDivisor(mr, cnt) == Pow(Scale + mr, cnt) - Scale

\* the summary has computed monthly_mortgage (line 954)
AfterSummary == pc # "summary"

\* C15: the monthly payment is 0 when the principal or the monthly rate is
\* not positive and the level payment otherwise; the heatmap applies the
\* same rule to its rates, and the divisor is never 0 where it is used.
C15_PaymentRule ==
    AfterSummary =>
        /\ (loan <= 0 \/ r <= 0) => monthly_mortgage = 0
        /\ (loan > 0 /\ r > 0) =>
               /\ PaymentDivisor(r, n) # 0
               /\ Abs(monthly_mortgage - LevelPayment(loan, r, n)) <= CashTol
        /\ (loan = 280000 /\ r = Pct(6) \div MonthsPerYear /\ n = 360) =>
               monthly_mortgage \in 1677..1680
        /\ \A j \in 1..HeatmapPoints :
               /\ AnnualHeatmapMortgage(HeatmapInterest(j)) =
                      MonthsPerYear
                          * MonthlyMortgage(loan, HeatmapInterest(j) \div MonthsPerYear, n)
               /\ loan <= 0 => AnnualHeatmapMortgage(HeatmapInterest(j)) = 0
               /\ loan > 0 =>
                      PaymentDivisor(HeatmapInterest(j) \div MonthsPerYear, n) # 0

C15_Witness ==
    /\ pc = "done"
    /\ loan = 0 /\ r > 0
    /\ monthly_mortgage = 0
    /\ heatmap_assigned = HeatmapCells

\* C16: with a positive rate, the loan balance after all n payments (a
\* holding period equal to the loan term) is 0, in the terminal sale and in
\* every heatmap cell, for a principal of 0 as for a positive one.
C16_PaidOffAtTerm ==
    (AfterSale /\ r > 0 /\ years * MonthsPerYear = n) =>
        /\ loan_balance = 0
        /\ LoanBalance = 0
        /\ \A j \in 1..HeatmapPoints : HmLoanBalance(HeatmapInterest(j)) = 0

C16_Witness ==
    /\ pc = "done"
    /\ r > 0 /\ loan > 0
    /\ years * MonthsPerYear = n
    /\ loan_balance = 0

\* C17: at an interest rate of 0 the monthly payment is principal / n.
C17_UniformAtZeroRate ==
    (AfterSummary /\ r = 0 /\ loan >= 0 /\ n >= 1) =>
        Abs(monthly_mortgage - loan \div n) <= 1

\* C18: at an interest rate of 0 the balance after k = years * 12 of n
\* payments is principal * (n - k) / n.
C18_LinearBalanceAtZeroRate ==
    (pc = "irr" /\ r = 0 /\ years * MonthsPerYear <= n) =>
        Abs(loan_balance - (loan * (n - years * MonthsPerYear)) \div n) <= 1

\* the number of years the forecast loop has completed
YearsForecast == IF pc = "forecast" THEN year - 1 ELSE IF AfterSale \/ pc = "sale" THEN years ELSE 0

\* C19: the forecast has one record per year, added in ascending order;
\* every year uses the annual debt service computed once from the full loan
\* term and the same depreciation; the value recorded for year t is
\* price * (1 + appr)^t, and that of year N is the final value of the sale.
C19_OneRecordPerYear ==
    /\ Len(annual_cash_flows) = YearsForecast
    /\ Len(annual_appreciation) = YearsForecast
    /\ Len(cumulative_returns) = YearsForecast
    /\ AfterSummary =>
           annual_mortgage =
               MonthsPerYear * MonthlyMortgage(loan, r, loan_term * MonthsPerYear)
    /\ \A t \in 1..Len(annual_cash_flows) :
           /\ annual_cash_flows[t] = GridAfterTax(annual_mortgage, t)
           /\ annual_appreciation[t] = Mul(price, Pow(Scale + appr, t))
    /\ AfterSale => annual_appreciation[years] = final_property_value

C19_Witness ==
    /\ pc = "irr"
    /\ years = MaxYears
    /\ Len(annual_appreciation) = years
    /\ annual_appreciation[1] < annual_appreciation[years]
    /\ annual_appreciation[years] = final_property_value

\* s does not decrease from one entry to the next
NonDecreasing(s) == \A t \in 1..(Len(s) - 1) : s[t] <= s[t + 1]

\* every yearly after-tax cash flow so far is non-negative
FlowsNonNegative == \A t \in 1..Len(annual_cash_flows) : annual_cash_flows[t] >= 0

\* C20: when all after-tax cash flows are non-negative, the cumulative
\* returns of the forecast and the cumulative ROI series of the selected
\* scenario do not decrease from a year to the next.
C20_CumulativeNonDecreasing ==
    FlowsNonNegative =>
        /\ NonDecreasing(cumulative_returns)
        /\ ScenariosDone => NonDecreasing(scenario_comparison[scenario])

C20_Witness ==
    /\ pc = "heatmap_init"
    /\ years >= 3
    /\ FlowsNonNegative
    /\ annual_cash_flows[1] > 0
    /\ cumulative_returns[1] < cumulative_returns[2]
    /\ scenario_comparison[scenario][1] < scenario_comparison[scenario][2]

\* appreciation rates of the slider of line 825, 0% to 10%
ApprSamples == {0, Pct(1), Lit(Pct(25), 1, 10), Pct(5), Pct(10)}

\* the IRR is a number at appreciation a
IrrDefinedAt(a) == ~GridIrr(a, rate).nan

\* C21: with every other input held fixed, a larger appreciation rate never
\* yields a smaller IRR, for any pair of configurations whose IRR is
\* defined; the IRR of the run is the one of its own appreciation rate.
C21_IrrMonotoneInAppreciation ==
    (pc = "roi" /\ MainCall \notin irr_raises) =>
        /\ project_irr = GridIrr(appr, rate)
        /\ \A a1, a2 \in ApprSamples :
               (a1 < a2 /\ IrrDefinedAt(a1) /\ IrrDefinedAt(a2)) =>
                   GridIrr(a1, rate).val <= GridIrr(a2, rate).val

C21_Witness ==
    /\ pc = "roi"
    /\ MainCall \notin irr_raises
    /\ years >= 2
    /\ ~project_irr.nan
    /\ IrrDefinedAt(Pct(1)) /\ IrrDefinedAt(Pct(10))
    /\ GridIrr(Pct(1), rate).val < project_irr.val
    /\ project_irr.val < GridIrr(Pct(10), rate).val

\* the cell holds a number that irr returned
DefinedCell(c) == c \in ComputedCells /\ ~heatmap_data[c].nan

\* down a column (next appreciation rate) the value strictly increases
IncreasesWithAppreciation(i, j) ==
    (DefinedCell(<<i, j>>) /\ DefinedCell(<<i + 1, j>>)) =>
        heatmap_data[<<i, j>>].val < heatmap_data[<<i + 1, j>>].val

\* along a row (next interest rate) the value strictly decreases
DecreasesWithInterest(i, j) ==
    (DefinedCell(<<i, j>>) /\ DefinedCell(<<i, j + 1>>)) =>
        heatmap_data[<<i, j>>].val > heatmap_data[<<i, j + 1>>].val

\* along a row the value is the same
ConstantInInterest(i, j) ==
    (DefinedCell(<<i, j>>) /\ DefinedCell(<<i, j + 1>>)) =>
        heatmap_data[<<i, j>>].val = heatmap_data[<<i, j + 1>>].val

\* C22 (as stated): in the finished 8x8 grid over the default axes, along
\* every row and column of defined cells the IRR strictly increases with the
\* appreciation index and strictly decreases with the interest-rate index.
C22_GridStrictlyMonotone ==
    pc = "done" =>
        /\ \A i \in 1..(HeatmapPoints - 1) : \A j \in 1..HeatmapPoints :
               IncreasesWithAppreciation(i, j)
        /\ \A i \in 1..HeatmapPoints : \A j \in 1..(HeatmapPoints - 1) :
               DecreasesWithInterest(i, j)

\* C22 (amended): the IRR strictly increases with the appreciation index;
\* it strictly decreases with the interest-rate index when there is a loan
\* (down payment below 100%) and does not depend on it when there is none.
C22_GridMonotoneWithLoan ==
    pc = "done" =>
        /\ \A i \in 1..(HeatmapPoints - 1) : \A j \in 1..HeatmapPoints :
               IncreasesWithAppreciation(i, j)
        /\ \A i \in 1..HeatmapPoints : \A j \in 1..(HeatmapPoints - 1) :
               IF loan > 0 THEN DecreasesWithInterest(i, j)
               ELSE ConstantInInterest(i, j)

C22_Witness ==
    /\ pc = "done"
    /\ loan > 0
    /\ years >= 2
    /\ \A c \in HeatmapCells : DefinedCell(c)
    /\ heatmap_data[<<1, 1>>].val < heatmap_data[<<8, 1>>].val
    /\ heatmap_data[<<1, 1>>].val > heatmap_data[<<1, 8>>].val

\* the cell of the run's own appreciation rate and mortgage rate
IsBaseCell(c) ==
    HeatmapAppreciation(c[1]) = appr /\ HeatmapInterest(c[2]) = rate

\* the loop has just run the body of cell c
JustComputed(c) == heatmap_assigned = CellsBefore(c[1], c[2]) \cup {c}

\* C23: a grid cell at the base appreciation rate and the base interest
\* rate runs the pipeline of the main forecast: its cash-flow series is,
\* entry by entry and with the sale proceeds, the series of the main
\* pipeline, and the cell holds (as a percentage) the IRR of the main
\* pipeline.
C23_BaseCellIsMainPipeline ==
    \A c \in heatmap_assigned :
        IsBaseCell(c) =>
            /\ JustComputed(c) => hm_cash_flows = cash_flows
            /\ heatmap_data[c] = Times100(project_irr)

C23_Witness ==
    /\ pc = "heatmap"
    /\ years >= 2
    /\ appr = Pct(2) /\ rate = Pct(3)
    /\ JustComputed(<<2, 1>>)
    /\ IsBaseCell(<<2, 1>>)
    /\ hm_cash_flows = cash_flows
    /\ ~project_irr.nan /\ project_irr.val > 0

\* recovery period of the property type: 27.5 years for residential and
\* multifamily, 39 years for the other commercial types
OnResidentialSchedule ==
    property_type \in {"Residential", "Commercial - Multifamily"}

\* price * 0.8 / recoveryPeriod
ScheduleDepreciation ==
    IF OnResidentialSchedule
    THEN Lit(Lit(price, 8, 10), 10, 275)
    ELSE Lit(Lit(price, 8, 10), 1, 39)

\* C24: annual depreciation is price * 0.8 / recoveryPeriod with
\* recoveryPeriod 27.5 for residential and multifamily and 39 for every
\* other commercial type; the summary, the forecast, the scenario comparison
\* and the heatmap all use this value.
C24_SameDepreciation ==
    AfterSummary =>
        /\ annual_depreciation = ScheduleDepreciation
        /\ YearDepreciation = ScheduleDepreciation
        /\ AltYearDepreciation = ScheduleDepreciation
        /\ HmYearDepreciation = ScheduleDepreciation
        /\ \A t \in 1..Len(annual_cash_flows) :
               annual_cash_flows[t] =
                   (YearNoi(t) - annual_mortgage)
                       - Max(0, Mul(YearNoi(t) - annual_mortgage
                                        - ScheduleDepreciation, tax))
                       + Mul(ScheduleDepreciation, tax)

C24_Witness ==
    /\ pc = "done"
    /\ property_type = "Commercial - Multifamily"
    /\ annual_depreciation = Lit(Lit(price, 8, 10), 10, 275)
    /\ annual_depreciation > Lit(Lit(price, 8, 10), 1, 39)
    /\ Len(annual_cash_flows) = 2

\* the debt service subtracted from the recorded cash flow of year t
DebtServiceCharged(t) ==
    IF annual_cash_flows[t] = GridAfterTax(0, t) THEN 0 ELSE annual_mortgage

RECURSIVE TotalDebtService(_)
TotalDebtService(t) ==
    IF t = 0 THEN 0 ELSE TotalDebtService(t - 1) + DebtServiceCharged(t)

\* C25: over any holding period, also one longer than the loan term, the
\* total debt service subtracted from the yearly cash flows never exceeds
\* loan_term * 12 * monthly payment: no debt service is charged in a year
\* after the loan has matured.
C25_NoDebtServiceAfterMaturity ==
    /\ TotalDebtService(Len(annual_cash_flows))
           <= loan_term * MonthsPerYear * monthly_mortgage
    /\ \A t \in 1..Len(annual_cash_flows) :
           t > loan_term => DebtServiceCharged(t) = 0

\* the total ROI has been computed (line 1560)
AfterRoi ==
    pc \in {"scenarios", "scenario_current", "scenario_alt", "scenario_alt_year",
            "heatmap_init", "heatmap", "done", "crashed"}

\* C26: for a down-payment fraction of 0 every return ratio is defined: the
\* per-year ROI of the scenario comparison yields a value without dividing
\* by zero (the script goes on and fills the ROI series), as the total ROI
\* does by being 0 when price * down_pct is not positive.
C26_RatiosDefinedAtZeroDown ==
    down_pct = 0 =>
        /\ pc # "crashed"
        /\ AfterRoi => roi = 0
        /\ ScenariosDone =>
               \A l \in ScenarioSet : Len(scenario_comparison[l]) = years

\* C27: the after-tax cash flow of the summary (cash_flow_with_tax_benefits,
\* also printed in the PDF report) equals the after-tax cash flow of year 1
\* of the forecast, for residential and commercial property types and
\* whether the taxable income is positive or negative.
C27_SummaryMatchesForecast ==
    Len(annual_cash_flows) >= 1 =>
        Abs(cash_flow_with_tax_benefits - annual_cash_flows[1]) <= CashTol

\* the path of returns on which every year returns rate_of_return
ConstantReturns == returns = [t \in 1..TotalYears |-> rate_of_return]

\* calculate_yearly_balances has returned for the withdrawal computed by
\* calculate_max_withdrawal and constant returns
RoundTrip ==
    /\ rpc = "returned"
    /\ withdrawal_amount = max_withdrawal
    /\ ConstantReturns

\* the ending balance of the last year
LastEndingBalance == yearly_results[Len(yearly_results)].EndingBalance

\* no ending balance before the last one is negative
EarlierBalancesNonNegative ==
    \A t \in 1..(Len(yearly_results) - 1) : yearly_results[t].EndingBalance >= 0

\* what the rounding of the products and quotients may leave in the balance
\* of the last year: one part in 10^4 of the withdrawal for each year, and a
\* cent
RoundTripTol == (TotalYears * max_withdrawal) \div 10^4 + 1

\* C28 (as stated): when every yearly return equals rate_of_return and the
\* withdrawal is the value returned by calculate_max_withdrawal for the
\* same inputs, the ending balance of the last year is exactly 0 and no
\* earlier ending balance is negative.
C28_RoundTripExact ==
    RoundTrip => (LastEndingBalance = 0 /\ EarlierBalancesNonNegative)

\* C28 (amended): ... the ending balance of the last year is 0 up to the
\* rounding of the arithmetic, and no earlier ending balance is negative.
C28_RoundTripWithinRounding ==
    RoundTrip =>
        (Abs(LastEndingBalance) <= RoundTripTol /\ EarlierBalancesNonNegative)

C28_Witness ==
    /\ RoundTrip
    /\ current_balance > 0 /\ annual_deposit > 0
    /\ rate_of_return = Pct(10)
    /\ years_before_retirement = MaxBefore
    /\ withdrawal_years = MaxWithdrawalYears
    /\ max_withdrawal > annual_deposit
    /\ Abs(LastEndingBalance) <= RoundTripTol

\* the button of part 1 has been pressed
AfterPart1 == rpc \in {"calculated", "raised", "simulating", "returned"}

\* C29: calculate_max_withdrawal returns a finite value for
\* rate_of_return = 0 with any annual_deposit >= 0, without a division by
\* zero: (current_balance + annual_deposit * years_before_retirement) /
\* withdrawal_years.
C29_ZeroRateHandled ==
    (AfterPart1 /\ rate_of_return = 0) =>
        /\ rpc # "raised"
        /\ Abs(max_withdrawal
                   - (current_balance + annual_deposit * years_before_retirement)
                         \div withdrawal_years) <= 1

\* the script has passed the vacancy input without FRED's rate
PastVacancySlider == pc # "vacancy_input" /\ ~use_fred_vacancy_rate

\* C30: for every property type the default passed to the vacancy slider
\* (default_vacancy * 100) lies within the slider's range 0.0..0.3, so the
\* slider is built and the vacancy fraction reaching the engine is the
\* default of the property type (5% to 10%) or what the user set.
C30_DefaultsInsideBounds ==
    PastVacancySlider =>
        /\ ~SliderRaises(VacancySlider(property_type))
        /\ pc # "widget_error"
        /\ \/ vacancy = DefaultVacancy(property_type)
           \/ vacancy \in {Lit(v, 1, 100) :
                              v \in SliderValues(VacancySlider(property_type))}
====
